---- MODULE Spec2Model ----
(***************************************************************************)
(* The automation page of the IoT dashboard (src/src/pages/Automation.tsx): *)
(* the rule store (automacoes), the event log (eventos), the rule form, the *)
(* initial backend load, and the interval-driven rule evaluator.  Every     *)
(* await of the source is a point where another callback may run, so every  *)
(* asynchronous handler is split at its awaits: the part before the await   *)
(* captures the closure it will resume with, the part after it is one       *)
(* atomic step.                                                             *)
(***************************************************************************)
EXTENDS Integers, Sequences, FiniteSets, TLC

(***************************************************************************)
(* Bounds of the model.                                                     *)
(***************************************************************************)
MaxClicks == 2      \* button presses explored per session
MaxEdits == 1       \* field changes explored per session
MaxRuns == 1        \* evaluate() calls in flight at once, evaluator on its own
MaxPageRuns == 1    \* evaluate() calls in flight at once, whole page
MaxEmissions == 250 \* trigger emissions explored for the event log on its own
MaxBatch == 3       \* events one cycle emits, event log on its own
MaxOverlap == 2     \* evaluate() calls in flight at once, overlapping runs
MaxReloads == 1     \* times the page is loaded again
MaxFlatLen == 2     \* entries of a flattened reading given to resolveMetricValue
MaxAbs == 2         \* largest absolute value and threshold given to compareValues
MaxEffects == 3     \* times the load effect of the History page is set up
MaxLoads == 2       \* loads of the History page in flight together

(***************************************************************************)
(* Program constants.                                                       *)
(***************************************************************************)
EventCap == 200       \* .slice(0, 200)
DebounceMs == 60000   \* 60_000
DefaultHour == 18     \* createAutomation: schedule.hh
DefaultMinute == 0    \* createAutomation: schedule.mm
DefaultThreshold == 0 \* createAutomation: threshold

MsPerMinute == 60 * 1000
MsPerHour == 60 * MsPerMinute

(***************************************************************************)
(* Values of the untyped JSON world: a number, a string that coerces to a   *)
(* number, a string that does not, undefined, NaN.                          *)
(***************************************************************************)
Num(n) == [k |-> "num", n |-> n]
NumStr(n) == [k |-> "numstr", n |-> n]
Str(s) == [k |-> "str", s |-> s]
Undef == [k |-> "undef"]
NaN == [k |-> "nan"]
Null == [k |-> "null"]

\* numericValue (lib/readings-utils): numbers and numeric strings coerce,
\* everything else is NaN.
numericValue(raw) ==
    IF raw.k = "num" \/ raw.k = "numstr" THEN Num(raw.n) ELSE NaN

\* Number.isFinite
IsFinite(v) == v.k = "num"

\* normalizeKey (lib/readings-utils): case-fold, strip non-alphanumerics.
normalizeKey(s) ==
    CASE s = "Temperatura" -> "temperatura"
      [] s = "temperatura" -> "temperatura"
      [] s = "temp_c" -> "tempc"
      [] s = "TempC" -> "tempc"
      [] s = "umidade" -> "umidade"
      [] OTHER -> s

\* String.prototype.trim() followed by the emptiness test, on the strings
\* of the model.
IsBlank(s) == s = "" \/ s = " "

(***************************************************************************)
(* Readings.  A payload is a timestamp field and a body; a body is a        *)
(* sequence of entries in insertion order, an entry being a field with a    *)
(* value (Leaf) or with a nested body (Node).  A key of the flattened        *)
(* mapping is the sequence of its path segments (the dotted path split at   *)
(* its dots).                                                               *)
(***************************************************************************)
Leaf(f, v) == [f |-> f, leaf |-> TRUE, c |-> v]
Node(f, b) == [f |-> f, leaf |-> FALSE, c |-> b]

RECURSIVE Flatten(_, _)
Flatten(body, prefix) ==
    IF body = <<>> THEN <<>>
    ELSE LET e == Head(body)
             key == Append(prefix, e.f)
         IN  (IF e.leaf THEN <<(<<key, e.c>>)>> ELSE Flatten(e.c, key))
             \o Flatten(Tail(body), prefix)

\* extractPayloadMaps(payload).flat (lib/readings-utils)
extractPayloadMaps(payload) == [flat |-> Flatten(payload.body, <<>>)]

\* pickTimestamp(payload, fallback) (lib/readings-utils)
pickTimestamp(payload, fallback) ==
    IF payload.ts.k = "num" THEN payload.ts.n ELSE fallback

Last(s) == s[Len(s)]

\* key in flat
HasKey(flat, key) == \E i \in 1..Len(flat) : flat[i][1] = key
ValueAt(flat, key) == flat[CHOOSE i \in 1..Len(flat) : flat[i][1] = key][2]

\* Faulty variant of lines 81-88 without the test of line 83: the exact key
\* has no precedence.
resolveMetricValueFuzzy(flat, key) ==
    IF key = <<>> THEN Undef
    ELSE LET normalized == normalizeKey(Last(key))
             hits == {i \in 1..Len(flat) : normalizeKey(Last(flat[i][1])) = normalized}
         IN  IF hits = {} THEN Undef
             ELSE flat[CHOOSE i \in hits : \A j \in hits : i <= j][2]

\* lines 81-88
resolveMetricValue(flat, key) ==
    IF key = <<>> THEN Undef
    ELSE IF HasKey(flat, key) THEN ValueAt(flat, key)
    ELSE LET normalized == normalizeKey(Last(key))
             hits == {i \in 1..Len(flat) : normalizeKey(Last(flat[i][1])) = normalized}
         IN  IF hits = {} THEN Undef
             ELSE flat[CHOOSE i \in hits : \A j \in hits : i <= j][2]

\* Faulty variant of lines 62-79 whose default case returns true.
compareValuesDefaultTrue(value, operator, threshold) ==
    CASE operator = ">" -> value > threshold
      [] operator = "<" -> value < threshold
      [] operator = ">=" -> value >= threshold
      [] operator = "<=" -> value <= threshold
      [] operator = "==" -> value = threshold
      [] operator = "!=" -> value # threshold
      [] OTHER -> TRUE

\* Faulty variant of lines 62-79 with the cases ">" and "<" exchanged.
compareValuesSwapped(value, operator, threshold) ==
    CASE operator = ">" -> value < threshold
      [] operator = "<" -> value > threshold
      [] operator = ">=" -> value >= threshold
      [] operator = "<=" -> value <= threshold
      [] operator = "==" -> value = threshold
      [] operator = "!=" -> value # threshold
      [] OTHER -> FALSE

\* lines 62-79
compareValues(value, operator, threshold) ==
    CASE operator = ">" -> value > threshold
      [] operator = "<" -> value < threshold
      [] operator = ">=" -> value >= threshold
      [] operator = "<=" -> value <= threshold
      [] operator = "==" -> value = threshold
      [] operator = "!=" -> value # threshold
      [] OTHER -> FALSE

\* new Date(ts).getHours() and .getMinutes(), local time taken as UTC
getHours(ts) == (ts \div MsPerHour) % 24
getMinutes(ts) == (ts \div MsPerMinute) % 60

(***************************************************************************)
(* Rules (Automacao).  An identifier is a pair <<origin, n>>; undefined     *)
(* fields are encoded as the value the code reads them as: metricKey <<>>,  *)
(* operador "", schedule <<>>, lastTriggered 0 (line 257: lastTriggered ||  *)
(* 0), threshold Undef.  description takes no part in any operation and is  *)
(* left out.                                                                *)
(***************************************************************************)
NoId == <<"none", 0>>
Uuid(n) == <<"u", n>>       \* crypto.randomUUID()
BackendId(n) == <<"p", n>>  \* _id assigned by POST /api/rules

Devices == {"d1", "d2"}
FirstDevice == "d1"         \* devices[0].espId of the device registry

createAutomation(espId, metricKey, uuid) ==
    [id |-> uuid, name |-> "", enabled |-> TRUE, type |-> "alert",
     espId |-> espId, metricKey |-> metricKey, operador |-> ">",
     threshold |-> Num(DefaultThreshold),
     schedule |-> <<DefaultHour, DefaultMinute>>, lastTriggered |-> 0]

\* The elements of a set of naturals in increasing order.
RECURSIVE Ascending(_)
Ascending(S) ==
    IF S = {} THEN <<>>
    ELSE LET m == CHOOSE x \in S : \A y \in S : x <= y
         IN  <<m>> \o Ascending(S \ {m})

\* espAlvos: the distinct devices of the enabled rules, in order of first
\* occurrence (insertion order of the Set).
espAlvos(autos) ==
    LET firsts == {i \in 1..Len(autos) :
                      /\ autos[i].enabled
                      /\ autos[i].espId # ""
                      /\ \A j \in 1..(i - 1) :
                            ~(autos[j].enabled /\ autos[j].espId = autos[i].espId)}
        order == Ascending(firsts)
    IN  [k \in 1..Len(order) |-> autos[order[k]].espId]

(***************************************************************************)
(* The evaluator's tests and updates (evaluate, lines 221-288).             *)
(***************************************************************************)
\* Faulty variant of line 232 without the test of ts itself and with < for
\* <=: a reading without timestamp passes for a device not seen yet.
isNewReadingUntimed(ts, seen) == ~(ts < seen)

\* Faulty variant of line 232, < for <=: a reading already seen passes.
isNewReadingStrict(ts, seen) == ~(ts = 0 \/ ts < seen)

\* line 232: the reading is processed only if it has a timestamp newer than
\* the last one seen for the device.
isNewReading(ts, seen) == ~(ts = 0 \/ ts <= seen)

\* Faulty variant of line 233: the timestamp is recorded for every device.
markSeenAll(seen, espId, ts) == [d \in DOMAIN seen |-> ts]

\* line 233: lastSeenRef.current[espId] = ts
markSeen(seen, espId, ts) == [seen EXCEPT ![espId] = ts]

\* Faulty variant of lines 240-243 that reads a missing threshold as 0.
alertFiresDefaultThreshold(automation, flat) ==
    LET rawValue == resolveMetricValue(flat, automation.metricKey)
        num == numericValue(rawValue)
        threshold == IF automation.threshold = Undef THEN Num(DefaultThreshold)
                     ELSE automation.threshold
    IN  /\ ~(~IsFinite(num) \/ automation.operador = "")
        /\ compareValues(num.n, automation.operador, threshold.n)

\* lines 240-243
alertFires(automation, flat) ==
    LET rawValue == resolveMetricValue(flat, automation.metricKey)
        num == numericValue(rawValue)
    IN  /\ ~(~IsFinite(num) \/ automation.threshold = Undef \/ automation.operador = "")
        /\ compareValues(num.n, automation.operador, automation.threshold.n)

\* Faulty variant of line 258, >= for >.
debouncedInclusive(ts, previous) == previous = 0 \/ ts - previous >= DebounceMs

\* line 258
debounced(ts, previous) == previous = 0 \/ ts - previous > DebounceMs

\* lines 254-258
scheduleFires(automation, ts) ==
    /\ automation.schedule # <<>>
    /\ getHours(ts) = automation.schedule[1]
    /\ getMinutes(ts) = automation.schedule[2]
    /\ debounced(ts, automation.lastTriggered)

fires(automation, ts, flat) ==
    IF automation.type = "alert" THEN alertFires(automation, flat)
    ELSE IF automation.type = "schedule" THEN scheduleFires(automation, ts)
    ELSE FALSE

\* A Trigger Event (lines 245-251 and 259-265).  id, a random UUID, is left
\* out; of text only its fixed wording is kept ("disparada" for an alert,
\* "executado" for a schedule); rule is not a field of Evento: it records
\* which rule pushed the event.
eventOf(automation, ts, espId) ==
    [ts |-> ts, espId |-> espId,
     name |-> IF automation.name # "" THEN automation.name
              ELSE IF automation.type = "alert" THEN "Automacao" ELSE "Agendamento",
     text |-> IF automation.type = "alert" THEN "disparada" ELSE "executado",
     rule |-> automation.id]

\* updates.set(id, ts) on a Map kept as a set of <<id, ts>> pairs
mapSet(updates, id, ts) == {u \in updates : u[1] # id} \cup {<<id, ts>>}
mapHas(updates, id) == \E u \in updates : u[1] = id
mapGet(updates, id) == (CHOOSE u \in updates : u[1] = id)[2]

\* lines 238-270: the loop over the active rules of one device
RECURSIVE evalRules(_, _, _, _, _)
evalRules(ativos, ts, espId, flat, acc) ==
    IF ativos = <<>> THEN acc
    ELSE LET automation == Head(ativos)
             next == IF fires(automation, ts, flat)
                     THEN [updates |-> mapSet(acc.updates, automation.id, ts),
                           novos |-> Append(acc.novos, eventOf(automation, ts, espId))]
                     ELSE acc
         IN  evalRules(Tail(ativos), ts, espId, flat, next)

\* lines 277-283
applyUpdates(updates, current) ==
    [i \in 1..Len(current) |->
        IF mapHas(updates, current[i].id)
        THEN [current[i] EXCEPT !.lastTriggered = mapGet(updates, current[i].id)]
        ELSE current[i]]

Reverse(s) == [i \in 1..Len(s) |-> s[Len(s) + 1 - i]]
Slice(s, n) == IF Len(s) <= n THEN s ELSE SubSeq(s, 1, n)

\* Faulty variant of line 286 without .slice(0, 200).
prependEventsInOrder(novosEventos, current) ==
    Slice(novosEventos \o current, EventCap)

prependEventsUncapped(novosEventos, current) == Reverse(novosEventos) \o current

\* line 286
prependEvents(novosEventos, current) ==
    Slice(Reverse(novosEventos) \o current, EventCap)

(***************************************************************************)
(* Inputs: what the backend may answer and what the user may type.          *)
(***************************************************************************)
H18 == 18 * MsPerHour
tA == H18 + 30000               \* 18:00:30
tC == H18 + 40000               \* 18:00:40
tB == H18 + 90000               \* 18:01:30, exactly DebounceMs after tA
Timestamps == {tA, tC, tB}

Reading(v) == <<Node("data", <<Leaf("temperatura", v)>>)>>
Bodies == {Reading(Num(30)), Reading(Num(10)), Reading(Str("abc")), <<>>}

\* GET /api/readings/:espId/latest: the fetch throws, the response is not
\* ok, the payload is empty, a reading arrives without a timestamp, or a
\* reading arrives with one.
Failures == {[kind |-> k] : k \in {"throw", "notOk", "empty"}}
NoTimestamp == [kind |-> "ok", payload |-> [ts |-> Undef, body |-> Reading(Num(30))]]
Arrivals(tss, bodies) ==
    {[kind |-> "ok", payload |-> [ts |-> Num(t), body |-> b]] : t \in tss, b \in bodies}

\* The answers explored for the evaluator on its own: every timestamp and
\* body for the first device, one reading for the others.
FetchOutcomes(espId) ==
    Failures \cup {NoTimestamp}
             \cup (IF espId = "d1" THEN Arrivals(Timestamps, Bodies)
                   ELSE Arrivals({tA}, {Reading(Num(30))}))

\* The answers explored together with the user's handlers.
FewFetchOutcomes ==
    {[kind |-> "throw"]} \cup Arrivals({tA}, {Reading(Num(30)), Reading(Num(10))})

TempKey == <<"temperatura">>
AlertRule(id, espId) ==
    [createAutomation(espId, TempKey, id) EXCEPT !.name = "alerta", !.threshold = Num(20)]
ScheduleRule(id, espId) ==
    [createAutomation(espId, <<>>, id) EXCEPT !.name = "horario", !.type = "schedule"]

\* The rule sets an earlier session may have left under AUTOMATIONS_KEY.
LocalRuleSets ==
    {<<>>,
     <<AlertRule(<<"r", 1>>, "d1")>>,
     <<ScheduleRule(<<"r", 1>>, "d1")>>,
     <<AlertRule(<<"r", 1>>, "d1"), ScheduleRule(<<"r", 2>>, "d2")>>}

PageRuleSets ==
    {<<>>, <<AlertRule(<<"r", 1>>, "d1")>>, <<ScheduleRule(<<"r", 1>>, "d1")>>}

\* A rule as GET /api/rules returns it: any field may be missing (id NoId,
\* enabled "absent", type "").
BackendRule(id, name, enabled, type) ==
    [id |-> id, name |-> name, enabled |-> enabled, type |-> type, espId |-> "d1",
     metricKey |-> TempKey, operador |-> "", threshold |-> Undef,
     schedule |-> <<DefaultHour, 1>>, lastTriggered |-> 0]

BackendLists ==
    {<<>>,
     \* the backend's copy of a local rule, last triggered at tA
     <<[BackendRule(<<"r", 1>>, "remota", "absent", "schedule")
           EXCEPT !.lastTriggered = tA]>>,
     \* the same identifier twice
     <<BackendRule(<<"b", 1>>, "", "false", ""),
       [BackendRule(<<"b", 1>>, "remota", "true", "schedule")
           EXCEPT !.lastTriggered = tA - 10000]>>,
     \* no identifier; no operator, no threshold
     <<BackendRule(NoId, "remota", "true", "alert"),
       [BackendRule(NoId, "remota", "true", "alert") EXCEPT !.operador = ">"]>>}

\* lines 153-165
toAutomacao(rule, uuid) ==
    [id |-> IF rule.id # NoId THEN rule.id ELSE uuid,
     name |-> rule.name,
     enabled |-> rule.enabled # "false",
     type |-> IF rule.type # "" THEN rule.type ELSE "alert",
     espId |-> rule.espId,
     metricKey |-> rule.metricKey, operador |-> rule.operador,
     threshold |-> rule.threshold, schedule |-> rule.schedule,
     lastTriggered |-> rule.lastTriggered]

\* Faulty variant of Map.set in which a key already present keeps its value.
mergedSetKeepFirst(merged, rule) ==
    IF \E i \in 1..Len(merged) : merged[i].id = rule.id
    THEN merged
    ELSE Append(merged, rule)

\* Map.set(rule.id, rule) on a Map kept as the sequence of its values in
\* insertion order: an existing key keeps its position.
mergedSet(merged, rule) ==
    IF \E i \in 1..Len(merged) : merged[i].id = rule.id
    THEN [i \in 1..Len(merged) |-> IF merged[i].id = rule.id THEN rule ELSE merged[i]]
    ELSE Append(merged, rule)

RECURSIVE mergeAll(_, _)
mergeAll(merged, rules) ==
    IF rules = <<>> THEN merged
    ELSE mergeAll(mergedSet(merged, Head(rules)), Tail(rules))

\* lines 146-169; uuid0 is the first unused UUID number
RECURSIVE convertAll(_, _)
convertAll(backendRules, uuid0) ==
    IF backendRules = <<>> THEN <<>>
    ELSE LET rule == Head(backendRules)
         IN  <<toAutomacao(rule, Uuid(uuid0))>>
             \o convertAll(Tail(backendRules), IF rule.id = NoId THEN uuid0 + 1 ELSE uuid0)

mergeRules(local, backendRules, uuid0) ==
    mergeAll(mergeAll(<<>>, local), convertAll(backendRules, uuid0))

uuidsUsed(backendRules) ==
    Cardinality({i \in 1..Len(backendRules) : backendRules[i].id = NoId})

(***************************************************************************)
(* State.                                                                   *)
(***************************************************************************)
VARIABLES
    automacoes,  \* useState: the rule set, a sequence of rules
    eventos,     \* useState: the event log, newest first
    erro,        \* useState: the message shown to the user
    abrirForm,   \* useState: the form is open
    editId,      \* useState: id of the rule being edited, NoId for null
    form,        \* useState: the rule in the form
    lastSeen,    \* lastSeenRef.current: device -> last processed timestamp (0: none)
    loadPc,      \* loadRules: "fetching" until GET /api/rules settles, then "done"
    loadLocal,   \* the automacoes the loadRules closure captured at mount
    runs,        \* evaluate() runs in flight, each with the closure it captured
    saves,       \* salvar calls awaiting POST /api/rules: the captured form and editId
    removals,    \* remover calls awaiting DELETE /api/rules/:id: the captured rule id
    nextId,      \* number of the next unused identifier (UUID or backend _id)
    clicks,      \* button presses so far
    edits,       \* field changes so far
    cap,         \* bound: evaluate() calls that may be in flight at once
    timers,      \* interval timers set and not cleared
    storedRules, \* localStorage item AUTOMATIONS_KEY
    storedEvents,\* localStorage item EVENTS_KEY
    reloads,     \* times the page was loaded again
    call,        \* a call of one of the module's pure functions: name and arguments
    returned,    \* what that call returned
    historyPage, \* the History page: its useState values, effects and loads
    emitted,     \* Trigger Events pushed to the log so far (history)
    lastOp       \* the handler that ran last and what it decided (history)

vars == <<automacoes, eventos, erro, abrirForm, editId, form, lastSeen, loadPc,
          loadLocal, runs, saves, removals, nextId, clicks, edits, cap, timers,
          storedRules, storedEvents, reloads, call, returned, historyPage, emitted,
          lastOp>>

(***************************************************************************)
(* The History page (export default function History): the events of the   *)
(* devices, loaded again every 10 s and whenever the device list, the      *)
(* period or the device filter changes.                                    *)
(***************************************************************************)
HistoryDevices == {<<>>, <<"d1">>, <<"d1", "d2">>}
Periods == {"24h", "7d"}
EspFilters == {"all", "d2"}

\* Lines 776-782 before the page is on screen: no effect, no timer, no load.
\* started counts the effects set up so far, gen is the one that is active
\* (0 for none), cancelled[g] is the variable of line 795 of effect g, and
\* last tells what the last step of the page was.
HistoryClosed ==
    [mounted |-> FALSE, devices |-> <<>>, period |-> "24h", espFilter |-> "all",
     events |-> <<>>, loading |-> FALSE, error |-> "",
     started |-> 0, gen |-> 0, timer |-> FALSE,
     cancelled |-> [g \in 1..MaxEffects |-> FALSE],
     loads |-> <<>>, last |-> [op |-> "none"]]

\* What GET /api/readings/:espId answers to a load: the request fails or is
\* not ok, or the readings give the rows with these timestamps (lines
\* 805-871, the rows of one device).
HistoryAnswers ==
    {[kind |-> "fail"]}
    \cup {[kind |-> "ok", tss |-> tss] : tss \in {<<tA>>, <<tB>>}}
rowsOf(espId, answer) ==
    [j \in 1..Len(answer.tss) |-> [espId |-> espId, ts |-> answer.tss[j]]]

FailMsg(espId) ==
    IF espId = "d1" THEN "falha ao carregar leituras de d1"
    ELSE "falha ao carregar leituras de d2"

\* collected.sort((a, b) => b.ts - a.ts): newest first, rows of the same
\* time in the order they were collected.
RECURSIVE sortByTs(_)
sortByTs(rows) ==
    IF rows = <<>> THEN <<>>
    ELSE LET rest == sortByTs(Tail(rows))
             newer == Cardinality({j \in 1..Len(rest) : rest[j].ts > Head(rows).ts})
         IN  SubSeq(rest, 1, newer) \o <<Head(rows)>> \o SubSeq(rest, newer + 1, Len(rest))

\* Faulty variant of the cleanup of lines 886-889 that clears the timer but
\* leaves the variable cancelled as it is.
cancelNothing(flags, gen) == flags

\* cancelled = true in the cleanup of effect gen (line 887).
cancel(flags, gen) == [flags EXCEPT ![gen] = TRUE]

\* The cleanup the effect returned (lines 886-889); the effect that met an
\* empty device list returned none (line 793).
cleanup(h) ==
    IF h.gen = 0 THEN h
    ELSE [h EXCEPT !.cancelled = cancel(@, h.gen), !.timer = FALSE, !.gen = 0]

\* Lines 878-882 of a load of effect gen that has asked every target.
finishLoad(h, gen, collected) ==
    [h EXCEPT !.events = IF h.cancelled[gen] THEN @ ELSE sortByTs(collected),
              !.loading = FALSE]

\* load() up to its first await (lines 797-805); with no target it runs to
\* its end at once.
startLoad(h) ==
    LET targets == IF h.espFilter = "all" THEN h.devices
                   ELSE SelectSeq(h.devices, LAMBDA d : d = h.espFilter)
        h1 == [h EXCEPT !.loading = TRUE, !.error = ""]
    IN  IF targets = <<>> THEN finishLoad(h1, h.gen, <<>>)
        ELSE [h1 EXCEPT !.loads = Append(@, [gen |-> h.gen, targets |-> targets,
                                             i |-> 1, collected |-> <<>>])]

\* The body of the effect (lines 790-890).
runEffect(h) ==
    IF h.devices = <<>> THEN [h EXCEPT !.events = <<>>]
    ELSE startLoad([h EXCEPT !.started = @ + 1, !.gen = h.started + 1, !.timer = TRUE])

\* A render with other dependencies: the cleanup of the effect that was
\* active, then the effect again.
rerunEffect(h) == runEffect(cleanup(h))

\* Room for one more effect and one more load.
canRun(h) ==
    h.devices = <<>> \/ (h.started < MaxEffects /\ Len(h.loads) < MaxLoads)

SyncWarning == "Regra salva localmente, mas falhou ao sincronizar com backend"

\* evaluate() at its first fetch, with the automacoes and espAlvos of the
\* render whose effect created it (lines 221-227).
newRun(autos) ==
    [autos |-> autos, targets |-> espAlvos(autos), i |-> 1,
     updates |-> {}, novos |-> <<>>]

\* The effect of lines 219-295 after a render with a new rule set: the old
\* interval is cleared, and if there is a target device evaluate() is
\* called at once and a new interval is set.
rerender(autos, rs) ==
    IF espAlvos(autos) = <<>> THEN rs ELSE Append(rs, newRun(autos))

\* line 220 and line 291: the effect sets an interval unless there is no
\* target device.
startTimer(n, autos) == IF espAlvos(autos) # <<>> THEN n + 1 ELSE n

\* Faulty variant of lines 292-294: the cleanup clears nothing.
clearTimerNever(n, autos) == n

\* lines 292-294: the cleanup of the effect clears the interval it set.
clearTimer(n, autos) == IF espAlvos(autos) # <<>> THEN n - 1 ELSE n

\* A localStorage item: absent, or the JSON text of an array, kept as the
\* array JSON.parse gives back.
Absent == [present |-> FALSE, value |-> <<>>]

\* JSON.stringify of a number: NaN is written as null.
jsonNumber(v) == IF v = NaN THEN Null ELSE v

\* JSON.stringify followed by JSON.parse, on an array of rules or events.
jsonRoundTrip(value) ==
    [i \in 1..Len(value) |->
        IF "threshold" \in DOMAIN value[i]
        THEN [value[i] EXCEPT !.threshold = jsonNumber(@)]
        ELSE value[i]]

\* Faulty variant of lines 111-122 that stores an empty array as "[]".
writeLocalAlways(value) == [present |-> TRUE, value |-> jsonRoundTrip(value)]

\* lines 111-122: the item after writeLocal(key, value)
writeLocal(value) ==
    IF value = <<>> THEN Absent ELSE [present |-> TRUE, value |-> jsonRoundTrip(value)]

\* lines 99-109: readLocal(key, fallback)
readLocal(item, fallback) ==
    IF ~item.present \/ item.value = <<>> THEN fallback ELSE item.value

\* No pure function is being followed.
NoCall == [fn |-> ""]

\* setAutomacoes(autos), with the render and the effects that follow it:
\* the rule set is persisted (lines 180-182), the evaluator effect is torn
\* down and set up again (lines 219-295).
setAutomacoes(autos, rs) ==
    /\ espAlvos(autos) = <<>> \/ Len(rs) < cap
    /\ automacoes' = autos
    /\ storedRules' = writeLocal(autos)
    /\ timers' = startTimer(clearTimer(timers, automacoes), autos)
    /\ runs' = rerender(autos, rs)

\* setEventos(evs), with the effect of lines 184-186.
setEventos(evs) ==
    /\ eventos' = evs
    /\ storedEvents' = writeLocal(Slice(evs, EventCap))

without(s, k) == [i \in 1..(Len(s) - 1) |-> IF i < k THEN s[i] ELSE s[i + 1]]

mounted(localRuleSets, maxRuns) ==
    /\ storedRules \in {writeLocal(rules) : rules \in localRuleSets}
    /\ storedEvents = Absent
    /\ automacoes = readLocal(storedRules, <<>>)
    /\ timers = startTimer(0, automacoes)
    /\ reloads = 0
    /\ cap = maxRuns
    /\ emitted = 0
    /\ loadLocal = automacoes
    /\ runs = rerender(automacoes, <<>>)
    /\ eventos = readLocal(storedEvents, <<>>)
    /\ erro = ""
    /\ abrirForm = FALSE
    /\ editId = NoId
    /\ form = createAutomation("", <<>>, Uuid(0))
    /\ lastSeen = [d \in Devices |-> 0]
    /\ loadPc = "fetching"
    /\ saves = <<>>
    /\ removals = <<>>
    /\ nextId = 1
    /\ clicks = 0
    /\ edits = 0
    /\ lastOp = [op |-> "mount"]

InitWith(localRuleSets, maxRuns) ==
    /\ mounted(localRuleSets, maxRuns)
    /\ call = NoCall
    /\ returned = NoCall
    /\ historyPage = HistoryClosed

(***************************************************************************)
(* loadRules (lines 139-177), resumed when GET /api/rules settles.          *)
(***************************************************************************)
loadRulesOk(backendRules) ==
    /\ loadPc = "fetching"
    /\ loadPc' = "done"
    /\ setAutomacoes(mergeRules(loadLocal, backendRules, nextId), runs)
    /\ nextId' = nextId + uuidsUsed(backendRules)
    /\ lastOp' = [op |-> "loadRules", ok |-> TRUE, backendRules |-> backendRules,
                  before |-> automacoes]
    /\ UNCHANGED <<eventos, erro, abrirForm, editId, form, lastSeen, loadLocal,
                   saves, removals, clicks, edits, cap, emitted,
                   reloads, call, returned, historyPage, storedEvents>>

loadRulesFail ==
    /\ loadPc = "fetching"
    /\ loadPc' = "done"
    /\ lastOp' = [op |-> "loadRules", ok |-> FALSE, before |-> automacoes]
    /\ UNCHANGED <<automacoes, eventos, erro, abrirForm, editId, form, lastSeen,
                   loadLocal, runs, saves, removals, nextId, clicks, edits, cap, emitted,
                   reloads, call, returned, historyPage, timers, storedRules, storedEvents>>

(***************************************************************************)
(* The evaluator.  tick is the interval timer calling evaluate(); evaluate  *)
(* resumes once per target device when the fetch of that device settles,    *)
(* and after the last device applies its batch (lines 276-287).             *)
(***************************************************************************)
tick ==
    /\ timers > 0
    /\ Len(runs) < cap
    /\ runs' = Append(runs, newRun(automacoes))
    /\ lastOp' = [op |-> "tick"]
    /\ UNCHANGED <<automacoes, eventos, erro, abrirForm, editId, form, lastSeen,
                   loadPc, loadLocal, saves, removals, nextId, clicks, edits, cap, emitted,
                   reloads, call, returned, historyPage, timers, storedRules, storedEvents>>

\* Faulty variant of lines 225-274 with the try around the whole loop: a
\* fetch that throws ends the cycle.
cycleEndsOnThrow(run, outcome) ==
    outcome.kind = "throw" \/ run.i = Len(run.targets)

\* lines 225-274: the try is inside the loop body, so whatever the fetch of
\* a device does the loop goes on to the next device and ends after the
\* last one.
cycleEnds(run, outcome) == run.i = Len(run.targets)

evaluate(k, outcome) ==
    LET run == runs[k]
        espId == run.targets[run.i]
        ok == outcome.kind = "ok"
        ts == IF ok THEN pickTimestamp(outcome.payload, 0) ELSE 0
        processed == ok /\ isNewReading(ts, lastSeen[espId])
        isAtivo(automation) == automation.enabled /\ automation.espId = espId
        before == [updates |-> run.updates, novos |-> run.novos]
        acc == IF processed
               THEN evalRules(SelectSeq(run.autos, isAtivo), ts, espId,
                              extractPayloadMaps(outcome.payload).flat, before)
               ELSE before
        finished == cycleEnds(run, outcome)
        rest == without(runs, k)
    IN  /\ lastSeen' = IF processed THEN markSeen(lastSeen, espId, ts) ELSE lastSeen
        /\ IF ~finished
           THEN /\ runs' = [runs EXCEPT ![k] = [run EXCEPT !.i = run.i + 1,
                                                           !.updates = acc.updates,
                                                           !.novos = acc.novos]]
                /\ UNCHANGED <<automacoes, eventos, timers, storedRules, storedEvents>>
           ELSE /\ IF acc.updates # {}
                   THEN setAutomacoes(applyUpdates(acc.updates, automacoes), rest)
                   ELSE runs' = rest /\ UNCHANGED <<automacoes, timers, storedRules>>
                /\ IF acc.novos # <<>>
                   THEN setEventos(prependEvents(acc.novos, eventos))
                   ELSE UNCHANGED <<eventos, storedEvents>>
        /\ emitted' = IF finished THEN emitted + Len(acc.novos) ELSE emitted
        /\ lastOp' = [op |-> "evaluate", espId |-> espId,
                      res |-> IF processed THEN "processed"
                              ELSE IF ok /\ ts # 0 THEN "stale"
                              ELSE IF ok THEN "untimed" ELSE "skipped",
                      pushed |-> Len(acc.novos) - Len(run.novos),
                      finished |-> finished]
        /\ UNCHANGED <<erro, abrirForm, editId, form, loadPc, loadLocal, saves,
                       removals, nextId, clicks, edits, cap,
                   reloads, call, returned, historyPage>>

(***************************************************************************)
(* The user's handlers.  Each is one interaction; MaxClicks bounds how many *)
(* a session makes.                                                         *)
(***************************************************************************)
click == clicks < MaxClicks /\ clicks' = clicks + 1

\* metricas[0] || "": the first numeric key of the latest reading of the
\* form's device, as the suggestion effect (lines 196-217) left it.
Suggestions == {<<>>, <<"data", "temperatura">>}

abrirNovo(sugestao) ==
    /\ click
    /\ form' = createAutomation(FirstDevice, sugestao, Uuid(nextId))
    /\ nextId' = nextId + 1
    /\ editId' = NoId
    /\ abrirForm' = TRUE
    /\ erro' = ""
    /\ lastOp' = [op |-> "abrirNovo"]
    /\ UNCHANGED <<automacoes, eventos, lastSeen, loadPc, loadLocal, runs, saves,
                   removals, edits, cap, emitted,
                   reloads, call, returned, historyPage, timers, storedRules, storedEvents>>

editar(i) ==
    /\ click
    /\ form' = automacoes[i]
    /\ editId' = automacoes[i].id
    /\ abrirForm' = TRUE
    /\ erro' = ""
    /\ lastOp' = [op |-> "editar"]
    /\ UNCHANGED <<automacoes, eventos, lastSeen, loadPc, loadLocal, runs, saves,
                   removals, nextId, edits, cap, emitted,
                   reloads, call, returned, historyPage, timers, storedRules, storedEvents>>

\* lines 568-571
cancelar ==
    /\ click
    /\ abrirForm
    /\ abrirForm' = FALSE
    /\ editId' = NoId
    /\ lastOp' = [op |-> "cancelar"]
    /\ UNCHANGED <<automacoes, eventos, erro, form, lastSeen, loadPc, loadLocal,
                   runs, saves, removals, nextId, edits, cap, emitted,
                   reloads, call, returned, historyPage, timers, storedRules, storedEvents>>

\* The onChange handlers of the form (lines 436-559): setForm(current =>
\* ({...current, field: value})).
setForm(field, value) ==
    /\ edits < MaxEdits
    /\ edits' = edits + 1
    /\ abrirForm
    /\ form' = [form EXCEPT ![field] = value]
    /\ lastOp' = [op |-> "setForm"]
    /\ UNCHANGED <<automacoes, eventos, erro, abrirForm, editId, lastSeen, loadPc,
                   loadLocal, runs, saves, removals, nextId, clicks, cap, emitted,
                   reloads, call, returned, historyPage, timers, storedRules, storedEvents>>

\* What the user enters in each field.
NameInputs == {"n", " "}
TypeInputs == {"alert", "schedule"}
EspIdInputs == {"", "d1"}
MetricKeyInputs == {<<>>, TempKey}
OperadorInputs == {"<"}
ThresholdInputs == {Num(20), Num(0)}
ScheduleInputs == {<<DefaultHour, 1>>}

\* Faulty variant of lines 335-341 without the check of metricKey.
validateWithoutMetric(f) ==
    IF IsBlank(f.name) THEN "informe um nome"
    ELSE IF IsBlank(f.espId) THEN "selecione um dispositivo"
    ELSE IF f.type # "alert" THEN ""
    ELSE IF f.operador = "" THEN "selecione o operador"
    ELSE IF f.threshold.k # "num" THEN "informe o valor de limiar"
    ELSE ""

\* lines 335-341: the message of the first check that fails, "" if none
validate(f) ==
    IF IsBlank(f.name) THEN "informe um nome"
    ELSE IF IsBlank(f.espId) THEN "selecione um dispositivo"
    ELSE IF f.type # "alert" THEN ""
    ELSE IF f.metricKey = <<>> THEN "informe a metrica"
    ELSE IF f.operador = "" THEN "selecione o operador"
    ELSE IF f.threshold.k # "num" THEN "informe o valor de limiar"
    ELSE ""

\* salvar up to its await (lines 333-362)
salvar ==
    /\ click
    /\ abrirForm
    /\ IF validate(form) # ""
       THEN erro' = validate(form) /\ UNCHANGED saves
       ELSE erro' = "" /\ saves' = Append(saves, [form |-> form, editId |-> editId])
    /\ lastOp' = [op |-> "salvar", before |-> automacoes, pending |-> saves]
    /\ UNCHANGED <<automacoes, eventos, abrirForm, editId, form, lastSeen, loadPc,
                   loadLocal, runs, removals, nextId, edits, cap, emitted,
                   reloads, call, returned, historyPage, timers, storedRules, storedEvents>>

\* What POST /api/rules answers: a failure (the fetch throws or the
\* response is not ok), success without an identifier, success with the
\* _id of the rule the backend created.
PostOutcomes == {"fail", "okNoId", "okId"}

\* Faulty variant of lines 366-375 that adds a created rule at the end.
savedOkAtEnd(current, f, eid, resultId) ==
    LET newRule == [f EXCEPT !.id = IF resultId # NoId THEN resultId ELSE f.id]
    IN  IF eid # NoId
        THEN [i \in 1..Len(current) |-> IF current[i].id = eid THEN newRule ELSE current[i]]
        ELSE current \o <<newRule>>

\* lines 366-375
savedOk(current, f, eid, resultId) ==
    LET newRule == [f EXCEPT !.id = IF resultId # NoId THEN resultId ELSE f.id]
    IN  IF eid # NoId
        THEN [i \in 1..Len(current) |-> IF current[i].id = eid THEN newRule ELSE current[i]]
        ELSE <<newRule>> \o current

\* Faulty variant of line 385 that replaces the first rule of the list.
savedLocallyFirst(current, f, eid, uuid) ==
    IF eid # NoId
    THEN [i \in 1..Len(current) |-> IF i = 1 THEN f ELSE current[i]]
    ELSE <<[f EXCEPT !.id = uuid]>> \o current

\* lines 384-388
savedLocally(current, f, eid, uuid) ==
    IF eid # NoId
    THEN [i \in 1..Len(current) |-> IF current[i].id = eid THEN f ELSE current[i]]
    ELSE <<[f EXCEPT !.id = uuid]>> \o current

\* salvar from its await on (lines 364-392)
salvarDone(j, outcome) ==
    LET f == saves[j].form
        eid == saves[j].editId
        newId == IF outcome = "okId" THEN BackendId(nextId)
                 ELSE IF outcome = "fail" /\ eid = NoId THEN Uuid(nextId)
                 ELSE NoId
    IN  /\ saves' = without(saves, j)
        /\ IF outcome = "fail"
           THEN /\ erro' = SyncWarning
                /\ setAutomacoes(savedLocally(automacoes, f, eid, newId), runs)
           ELSE /\ erro' = erro
                /\ setAutomacoes(
                       savedOk(automacoes, f, eid, newId), runs)
        /\ nextId' = IF newId # NoId THEN nextId + 1 ELSE nextId
        /\ abrirForm' = FALSE
        /\ editId' = NoId
        /\ lastOp' = [op |-> "salvarDone", outcome |-> outcome, form |-> f,
                      editId |-> eid, newId |-> newId, before |-> automacoes,
                      erro |-> erro]
        /\ UNCHANGED <<eventos, form, lastSeen, loadPc, loadLocal, removals, clicks, edits, cap, emitted,
                   reloads, call, returned, historyPage, storedEvents>>

\* remover up to its await (lines 314-321); confirmed is window.confirm's answer
remover(i, confirmed) ==
    /\ click
    /\ removals' = IF confirmed THEN Append(removals, automacoes[i].id) ELSE removals
    /\ lastOp' = [op |-> "remover", confirmed |-> confirmed]
    /\ UNCHANGED <<automacoes, eventos, erro, abrirForm, editId, form, lastSeen,
                   loadPc, loadLocal, runs, saves, nextId, edits, cap, emitted,
                   reloads, call, returned, historyPage, timers, storedRules, storedEvents>>

\* Faulty variant of line 330, === for !==.
removeRuleInverted(current, id) ==
    LET keep(item) == item.id = id IN SelectSeq(current, keep)

\* line 330
removeRule(current, id) ==
    LET keep(item) == item.id # id IN SelectSeq(current, keep)

\* remover from its await on (lines 322-330), whatever DELETE answered
DeleteOutcomes == {"ok", "notOk", "throw"}

removerDone(j, outcome) ==
    /\ removals' = without(removals, j)
    /\ setAutomacoes(removeRule(automacoes, removals[j]), runs)
    /\ lastOp' = [op |-> "removerDone", outcome |-> outcome, id |-> removals[j],
                  before |-> automacoes]
    /\ UNCHANGED <<eventos, erro, abrirForm, editId, form, lastSeen, loadPc,
                   loadLocal, saves, nextId, clicks, edits, cap, emitted,
                   reloads, call, returned, historyPage, storedEvents>>

\* Faulty variant of lines 617-621 without the test of the id: the switch
\* of one rule sets every rule.
toggledAll(current, id, value) ==
    [i \in 1..Len(current) |-> [current[i] EXCEPT !.enabled = value]]

\* lines 617-621: the Switch of a rule of the list
toggled(current, id, value) ==
    [i \in 1..Len(current) |->
        IF current[i].id = id THEN [current[i] EXCEPT !.enabled = value] ELSE current[i]]

toggle(i) ==
    /\ click
    /\ setAutomacoes(toggled(automacoes, automacoes[i].id, ~automacoes[i].enabled), runs)
    /\ lastOp' = [op |-> "toggle", id |-> automacoes[i].id]
    /\ UNCHANGED <<eventos, erro, abrirForm, editId, form, lastSeen, loadPc,
                   loadLocal, saves, removals, nextId, edits, cap, emitted,
                   reloads, call, returned, historyPage, storedEvents>>

(***************************************************************************)
(* The page is loaded again (or the component is unmounted and mounted      *)
(* again): lines 124-135 run anew.  State comes back from localStorage,     *)
(* lastSeenRef starts empty, and the callbacks of the old instance no       *)
(* longer reach any state.  Tearing the old instance down runs the cleanup  *)
(* of the evaluator effect (lines 292-294).                                 *)
(***************************************************************************)
reload ==
    /\ reloads < MaxReloads
    /\ reloads' = reloads + 1
    /\ automacoes' = readLocal(storedRules, <<>>)
    /\ eventos' = readLocal(storedEvents, <<>>)
    /\ lastSeen' = [d \in Devices |-> 0]
    /\ runs' = rerender(automacoes', <<>>)
    /\ timers' = startTimer(clearTimer(timers, automacoes), automacoes')
    /\ loadPc' = "fetching"
    /\ loadLocal' = automacoes'
    /\ form' = createAutomation("", <<>>, Uuid(nextId))
    /\ nextId' = nextId + 1
    /\ erro' = ""
    /\ abrirForm' = FALSE
    /\ editId' = NoId
    /\ saves' = <<>>
    /\ removals' = <<>>
    /\ lastOp' = [op |-> "reload"]
    /\ UNCHANGED <<storedRules, storedEvents, clicks, edits, cap, emitted,
                   call, returned, historyPage>>

\* The evaluator and the initial load, without the user.
NextEval ==
    \/ \E backendRules \in BackendLists : loadRulesOk(backendRules)
    \/ loadRulesFail
    \/ tick
    \/ \E k \in 1..Len(runs) :
          \E outcome \in FetchOutcomes(runs[k].targets[runs[k].i]) : evaluate(k, outcome)

InitEval == InitWith(LocalRuleSets, MaxRuns)

SpecEval == InitEval /\ [][NextEval]_vars

\* The load, the evaluator and the enable switch, across loads of the page.
NextReload ==
    \/ \E backendRules \in BackendLists : loadRulesOk(backendRules)
    \/ loadRulesFail
    \/ tick
    \/ \E k \in 1..Len(runs), outcome \in FewFetchOutcomes : evaluate(k, outcome)
    \/ \E i \in 1..Len(automacoes) : toggle(i)
    \/ reload

SpecReload == InitEval /\ [][NextReload]_vars

\* The same with runs that overlap: the timer fires, or the effect runs
\* again, while an earlier evaluate() still awaits a fetch.
InitOverlap == InitWith(LocalRuleSets, MaxOverlap)

SpecOverlap == InitOverlap /\ [][NextEval]_vars

\* The whole page.
Next ==
    \/ \E backendRules \in BackendLists : loadRulesOk(backendRules)
    \/ loadRulesFail
    \/ tick
    \/ \E k \in 1..Len(runs), outcome \in FewFetchOutcomes : evaluate(k, outcome)
    \/ \E sugestao \in Suggestions : abrirNovo(sugestao)
    \/ \E i \in 1..Len(automacoes) : editar(i)
    \/ cancelar
    \/ \E v \in NameInputs : setForm("name", v)
    \/ \E v \in TypeInputs : setForm("type", v)
    \/ \E v \in EspIdInputs : setForm("espId", v)
    \/ \E v \in MetricKeyInputs : setForm("metricKey", v)
    \/ \E v \in OperadorInputs : setForm("operador", v)
    \/ \E v \in ThresholdInputs : setForm("threshold", v)
    \/ \E v \in ScheduleInputs : setForm("schedule", v)
    \/ \E v \in BOOLEAN : setForm("enabled", v)
    \/ salvar
    \/ \E j \in 1..Len(saves), outcome \in PostOutcomes : salvarDone(j, outcome)
    \/ \E i \in 1..Len(automacoes), confirmed \in BOOLEAN : remover(i, confirmed)
    \/ \E j \in 1..Len(removals), outcome \in DeleteOutcomes : removerDone(j, outcome)
    \/ \E i \in 1..Len(automacoes) : toggle(i)

Init == InitWith(PageRuleSets, MaxPageRuns)

Spec == Init /\ [][Next]_vars

\* The whole page from the moment the user has opened the form for a new
\* rule (abrirNovo, lines 297-304) and typed a name (line 436 on): the form
\* is valid and can be submitted.  One alert rule is stored.
InitForm ==
    /\ storedRules = writeLocal(<<AlertRule(<<"r", 1>>, "d1")>>)
    /\ storedEvents = Absent
    /\ automacoes = readLocal(storedRules, <<>>)
    /\ timers = startTimer(0, automacoes)
    /\ reloads = 0
    /\ call = NoCall
    /\ returned = NoCall
    /\ historyPage = HistoryClosed
    /\ cap = MaxPageRuns
    /\ emitted = 0
    /\ loadLocal = automacoes
    /\ runs = rerender(automacoes, <<>>)
    /\ eventos = readLocal(storedEvents, <<>>)
    /\ erro = ""
    /\ abrirForm = TRUE
    /\ editId = NoId
    /\ form = [createAutomation(FirstDevice, TempKey, Uuid(1)) EXCEPT !.name = "n"]
    /\ lastSeen = [d \in Devices |-> 0]
    /\ loadPc = "fetching"
    /\ saves = <<>>
    /\ removals = <<>>
    /\ nextId = 2
    /\ clicks = 0
    /\ edits = 0
    /\ lastOp = [op |-> "setForm"]

SpecForm == InitForm /\ [][Next]_vars

(***************************************************************************)
(* The event log on its own: cycle after cycle applies a batch of new       *)
(* events (lines 285-287).  The n-th event emitted carries n as timestamp.  *)
(***************************************************************************)
nthEvent(n) == eventOf(AlertRule(<<"r", 1>>, FirstDevice), n, FirstDevice)

emitBatch(m) ==
    /\ emitted + m <= MaxEmissions
    /\ setEventos(prependEvents([i \in 1..m |-> nthEvent(emitted + i)], eventos))
    /\ emitted' = emitted + m
    /\ lastOp' = [op |-> "emitBatch", pushed |-> m]
    /\ UNCHANGED <<automacoes, erro, abrirForm, editId, form, lastSeen, loadPc,
                   loadLocal, runs, saves, removals, nextId, clicks, edits, cap,
                   reloads, call, returned, historyPage, timers, storedRules>>

NextLog == \E m \in 1..MaxBatch : emitBatch(m)

InitLog == InitWith({<<>>}, MaxRuns)

SpecLog == InitLog /\ [][NextLog]_vars

(***************************************************************************)
(* Progress of the evaluator.  The backend's latest reading of every device *)
(* stays the same, a temperature of 30 at 18:00:30; a fetch fails or        *)
(* delivers it.  Two alert rules watch device d1, the second switched off;  *)
(* the user may switch rules on and off while runs are in flight.  The      *)
(* interval timer keeps firing while it is set, and for every run in flight *)
(* the fetch it awaits eventually succeeds.                                 *)
(***************************************************************************)
LatestReading == [kind |-> "ok", payload |-> [ts |-> Num(tA), body |-> Reading(Num(30))]]

LiveRuleSet ==
    <<AlertRule(<<"r", 1>>, "d1"),
      [AlertRule(<<"r", 2>>, "d1") EXCEPT !.enabled = FALSE]>>

fetched(k) == k <= Len(runs) /\ evaluate(k, LatestReading)

NextLive ==
    \/ \E backendRules \in BackendLists : loadRulesOk(backendRules)
    \/ loadRulesFail
    \/ tick
    \/ \E k \in 1..Len(runs) : evaluate(k, [kind |-> "throw"])
    \/ \E k \in 1..MaxOverlap : fetched(k)
    \/ \E i \in 1..Len(automacoes) : toggle(i)

InitLive == InitWith({LiveRuleSet}, MaxOverlap)

\* The timer keeps firing: weak fairness of tick.  The fetch a run awaits
\* eventually succeeds: strong fairness of fetched(k), written out with its
\* enabling condition, which is that a k-th run is in flight.
SpecLive ==
    /\ InitLive
    /\ [][NextLive]_vars
    /\ WF_vars(tick)
    /\ \A k \in 1..MaxOverlap :
          <>[](Len(runs) < k) \/ []<><<fetched(k)>>_vars

(***************************************************************************)
(* The pure functions of the module, each called once on arguments drawn    *)
(* from bounded sets.                                                       *)
(***************************************************************************)
\* Keys of a flattened reading, as path segments.
FlatKeys ==
    {<<"temperatura">>, <<"data", "temperatura">>, <<"data", "Temperatura">>,
     <<"umidade">>, <<"data", "temp_c">>, <<"TempC">>}

\* Flattened readings of at most n entries: distinct keys in iteration
\* order, the i-th entry holding the number i.
Flats(n) ==
    UNION {{[i \in 1..len |-> <<ks[i], Num(i)>>] :
               ks \in {f \in [1..len -> FlatKeys] :
                          \A i, j \in 1..len : f[i] = f[j] => i = j}} :
           len \in 0..n}

Operators == {">", "<", ">=", "<=", "==", "!=", "", "=>"}

Calls ==
    {[fn |-> "resolveMetricValue", flat |-> flat, key |-> key] :
        flat \in Flats(MaxFlatLen), key \in FlatKeys \cup {<<>>}}
    \cup {[fn |-> "compareValues", value |-> v, operator |-> o, threshold |-> t] :
             v \in -MaxAbs..MaxAbs, o \in Operators, t \in -MaxAbs..MaxAbs}

callResolveMetricValue ==
    /\ call.fn = "resolveMetricValue"
    /\ returned = NoCall
    /\ returned' = [fn |-> call.fn, value |-> resolveMetricValue(call.flat, call.key)]
    /\ UNCHANGED <<automacoes, eventos, erro, abrirForm, editId, form, lastSeen,
                   loadPc, loadLocal, runs, saves, removals, nextId, clicks, edits,
                   cap, timers, storedRules, storedEvents, reloads, call, historyPage,
                   emitted, lastOp>>

callCompareValues ==
    /\ call.fn = "compareValues"
    /\ returned = NoCall
    /\ returned' = [fn |-> call.fn,
                    value |-> compareValues(call.value, call.operator, call.threshold)]
    /\ UNCHANGED <<automacoes, eventos, erro, abrirForm, editId, form, lastSeen,
                   loadPc, loadLocal, runs, saves, removals, nextId, clicks, edits,
                   cap, timers, storedRules, storedEvents, reloads, call, historyPage,
                   emitted, lastOp>>

NextFunctions == callResolveMetricValue \/ callCompareValues

InitFunctions ==
    /\ mounted({<<>>}, MaxRuns)
    /\ call \in Calls
    /\ returned = NoCall
    /\ historyPage = HistoryClosed

SpecFunctions == InitFunctions /\ [][NextFunctions]_vars

(***************************************************************************)
(* The History page on its own.                                            *)
(***************************************************************************)
onlyHistory ==
    UNCHANGED <<automacoes, eventos, erro, abrirForm, editId, form, lastSeen,
                loadPc, loadLocal, runs, saves, removals, nextId, clicks, edits,
                cap, timers, storedRules, storedEvents, reloads, call, returned,
                emitted, lastOp>>

\* useDeviceRegistry() gives another device list.
setDevices(devices) ==
    LET h == [historyPage EXCEPT !.devices = devices]
    IN  /\ historyPage.mounted
        /\ devices # historyPage.devices
        /\ canRun(h)
        /\ historyPage' = [rerunEffect(h) EXCEPT !.last = [op |-> "setDevices"]]
        /\ onlyHistory

setPeriod(period) ==
    LET h == [historyPage EXCEPT !.period = period]
    IN  /\ historyPage.mounted
        /\ period # historyPage.period
        /\ canRun(h)
        /\ historyPage' = [rerunEffect(h) EXCEPT !.last = [op |-> "setPeriod"]]
        /\ onlyHistory

setEspFilter(espFilter) ==
    LET h == [historyPage EXCEPT !.espFilter = espFilter]
    IN  /\ historyPage.mounted
        /\ espFilter # historyPage.espFilter
        /\ canRun(h)
        /\ historyPage' = [rerunEffect(h) EXCEPT !.last = [op |-> "setEspFilter"]]
        /\ onlyHistory

\* setInterval(load, 10_000) of the active effect fires (line 885).
tickHistory ==
    /\ historyPage.mounted
    /\ historyPage.timer
    /\ Len(historyPage.loads) < MaxLoads
    /\ historyPage' = [startLoad(historyPage) EXCEPT !.last = [op |-> "tick"]]
    /\ onlyHistory

\* The request of load i for its current target is answered (lines 803-876),
\* and the load goes on to its next target or to its end (lines 878-882).
answerLoad(i, answer) ==
    LET load == historyPage.loads[i]
        espId == load.targets[load.i]
        failed == answer.kind = "fail"
        collected == IF failed THEN load.collected
                     ELSE load.collected \o rowsOf(espId, answer)
        h1 == IF failed /\ ~historyPage.cancelled[load.gen]
              THEN [historyPage EXCEPT !.error = FailMsg(espId)]
              ELSE historyPage
        finished == load.i = Len(load.targets)
        h2 == IF finished
              THEN finishLoad([h1 EXCEPT !.loads = SubSeq(@, 1, i - 1)
                                                   \o SubSeq(@, i + 1, Len(@))],
                              load.gen, collected)
              ELSE [h1 EXCEPT !.loads[i].i = @ + 1, !.loads[i].collected = collected]
    IN  /\ i \in 1..Len(historyPage.loads)
        /\ historyPage' = [h2 EXCEPT !.last = [op |-> "answer", gen |-> load.gen,
                                               active |-> historyPage.gen,
                                               failed |-> failed,
                                               finished |-> finished,
                                               collected |-> collected]]
        /\ onlyHistory

\* The page leaves the screen: the cleanup of the active effect runs.
unmountHistory ==
    /\ historyPage.mounted
    /\ historyPage' = [cleanup(historyPage) EXCEPT !.mounted = FALSE,
                                                   !.last = [op |-> "unmount"]]
    /\ onlyHistory

NextHistory ==
    \/ \E devices \in HistoryDevices : setDevices(devices)
    \/ \E period \in Periods : setPeriod(period)
    \/ \E espFilter \in EspFilters : setEspFilter(espFilter)
    \/ tickHistory
    \/ \E i \in 1..MaxLoads, answer \in HistoryAnswers : answerLoad(i, answer)
    \/ unmountHistory

\* The page is on screen and the registry has no device yet: the effect ran
\* lines 791-794.
InitHistory ==
    /\ mounted({<<>>}, MaxRuns)
    /\ call = NoCall
    /\ returned = NoCall
    /\ historyPage = [runEffect([HistoryClosed EXCEPT !.mounted = TRUE])
                         EXCEPT !.last = [op |-> "mount"]]

SpecHistory == InitHistory /\ [][NextHistory]_vars

(***************************************************************************)
(* Properties of the evaluator, checked under SpecEval.                     *)
(***************************************************************************)
\* The device whose fetch run k of evaluate() is waiting for.
deviceOf(k) == runs[k].targets[runs[k].i]
isLastDevice(k) == runs[k].i = Len(runs[k].targets)

\* outcome is a reading with a timestamp; tsOf is that timestamp.
isReading(outcome) == outcome.kind = "ok" /\ outcome.payload.ts.k = "num"
tsOf(outcome) == outcome.payload.ts.n

\* The events the step of run k pushed to novosEventos: the new tail of the
\* run's list, or, when the step applied the batch, what the log gained
\* beyond the events of the earlier devices.
pushedBy(k) ==
    IF isLastDevice(k)
    THEN SubSeq(eventos', 1, Len(eventos') - Len(eventos) - Len(runs[k].novos))
    ELSE SubSeq(runs'[k].novos, Len(runs[k].novos) + 1, Len(runs'[k].novos))

\* How many of the events of s the rule id pushed for a reading of time ts.
firings(s, id, ts) ==
    Cardinality({i \in 1..Len(s) : s[i].rule = id /\ s[i].ts = ts})

\* C1: when the latest reading fetched for a device has a timestamp not
\* newer than the last one seen for that device, the cycle evaluates no rule
\* for the device: the step collects no event and no lastTriggered update
\* (the batch it may apply is the one the earlier devices collected) and
\* the device's last-seen timestamp stays as it was.
C1_StaleReadingIgnored ==
    [][\A k \in 1..Len(runs) :
          (\E outcome \in FetchOutcomes(deviceOf(k)) :
              /\ isReading(outcome)
              /\ tsOf(outcome) <= lastSeen[deviceOf(k)]
              /\ evaluate(k, outcome)) =>
                /\ lastSeen' = lastSeen
                /\ pushedBy(k) = <<>>
                /\ IF isLastDevice(k)
                   THEN /\ automacoes' = applyUpdates(runs[k].updates, automacoes)
                        /\ emitted' = emitted + Len(runs[k].novos)
                   ELSE /\ runs'[k].updates = runs[k].updates
                        /\ runs'[k].novos = runs[k].novos
                        /\ UNCHANGED <<automacoes, eventos>>]_vars

\* A stale reading arrived for a device that an enabled alert rule watches
\* and whose reading would fire it.
C1_Witness ==
    /\ lastOp.op = "evaluate"
    /\ lastOp.res = "stale"
    /\ lastSeen[lastOp.espId] > 0
    /\ \E i \in 1..Len(automacoes) :
          /\ automacoes[i].enabled
          /\ automacoes[i].type = "alert"
          /\ automacoes[i].espId = lastOp.espId
          /\ automacoes[i].lastTriggered = lastSeen[lastOp.espId]

\* C2: an enabled alert rule with operator ">" whose device delivers a new
\* reading in which the rule's metric resolves to a number strictly greater
\* than the threshold pushes exactly one Trigger Event, stamped with the
\* reading's timestamp; and when the cycle's batch is applied every rule
\* that fired in the cycle has the timestamp of its reading as lastTriggered.
C2_AlertFiresOnce ==
    [][\A k \in 1..Len(runs) : \A outcome \in FetchOutcomes(deviceOf(k)) :
          LET ts == tsOf(outcome) IN
             (/\ isReading(outcome)
              /\ ts > lastSeen[deviceOf(k)]
              /\ evaluate(k, outcome)) =>
                /\ \A n \in 1..Len(runs[k].autos) :
                      LET a == runs[k].autos[n]
                          v == numericValue(resolveMetricValue(
                                   extractPayloadMaps(outcome.payload).flat, a.metricKey))
                      IN  (/\ a.enabled /\ a.type = "alert" /\ a.operador = ">"
                           /\ a.espId = deviceOf(k)
                           /\ v.k = "num" /\ a.threshold.k = "num"
                           /\ v.n > a.threshold.n) =>
                             /\ firings(pushedBy(k), a.id, ts) = 1
                             /\ \A e \in 1..Len(pushedBy(k)) :
                                   pushedBy(k)[e].rule = a.id =>
                                      /\ pushedBy(k)[e].espId = a.espId
                                      /\ pushedBy(k)[e].text = "disparada"
                             /\ IF isLastDevice(k)
                                THEN \A i \in 1..Len(automacoes') :
                                        automacoes'[i].id = a.id =>
                                           automacoes'[i].lastTriggered = ts
                                ELSE <<a.id, ts>> \in runs'[k].updates
                /\ isLastDevice(k) =>
                      \A u \in runs[k].updates : \A i \in 1..Len(automacoes') :
                         automacoes'[i].id = u[1] =>
                            automacoes'[i].lastTriggered \in {u[2], ts}]_vars

\* The newest event of the log is an alert's, pushed by the step that just
\* applied its batch, and the rule carries the event's timestamp.
C2_Witness ==
    /\ lastOp.op = "evaluate"
    /\ lastOp.res = "processed"
    /\ lastOp.finished
    /\ lastOp.pushed = 1
    /\ eventos # <<>>
    /\ eventos[1].text = "disparada"
    /\ \E i \in 1..Len(automacoes) :
          /\ automacoes[i].id = eventos[1].rule
          /\ automacoes[i].operador = ">"
          /\ automacoes[i].lastTriggered = eventos[1].ts

\* Whether an enabled schedule rule a of the cycle's rule set fires on the
\* reading of time ts that the step of run k processes, against the rule
\* "the time of day matches and there is no previous trigger or the given
\* test on the elapsed time passes".
scheduleRuleOf(k, a) ==
    a.enabled /\ a.type = "schedule" /\ a.schedule # <<>> /\ a.espId = deviceOf(k)
hhmmMatch(a, ts) ==
    (ts \div 3600000) % 24 = a.schedule[1] /\ (ts \div 60000) % 60 = a.schedule[2]

\* C3, as stated: an enabled schedule rule fires on a new reading exactly
\* when the reading's hour and minute equal the rule's and either the rule
\* has no previous lastTriggered or at least 60000 ms have elapsed since it.
C3_Original ==
    [][\A k \in 1..Len(runs) : \A outcome \in FetchOutcomes(deviceOf(k)) :
          LET ts == tsOf(outcome) IN
             (/\ isReading(outcome)
              /\ ts > lastSeen[deviceOf(k)]
              /\ evaluate(k, outcome)) =>
                \A n \in 1..Len(runs[k].autos) :
                   LET a == runs[k].autos[n]
                   IN  scheduleRuleOf(k, a) =>
                          (firings(pushedBy(k), a.id, ts) >= 1
                             <=> /\ hhmmMatch(a, ts)
                                 /\ \/ a.lastTriggered = 0
                                    \/ ts - a.lastTriggered >= 60000)]_vars

\* C3, amended: an enabled schedule rule fires on a new reading exactly when
\* the reading's hour and minute equal the rule's and either the rule has no
\* previous lastTriggered or more than 60000 ms have elapsed since it; at
\* exactly 60000 ms it does not fire.
C3_ScheduleFiresIff ==
    [][\A k \in 1..Len(runs) : \A outcome \in FetchOutcomes(deviceOf(k)) :
          LET ts == tsOf(outcome) IN
             (/\ isReading(outcome)
              /\ ts > lastSeen[deviceOf(k)]
              /\ evaluate(k, outcome)) =>
                \A n \in 1..Len(runs[k].autos) :
                   LET a == runs[k].autos[n]
                   IN  scheduleRuleOf(k, a) =>
                          (firings(pushedBy(k), a.id, ts) >= 1
                             <=> /\ hhmmMatch(a, ts)
                                 /\ \/ a.lastTriggered = 0
                                    \/ ts - a.lastTriggered > 60000)]_vars

\* A reading taken exactly 60000 ms after the rule's last trigger, in the
\* rule's minute, was processed and pushed nothing.
C3_Witness ==
    /\ lastOp.op = "evaluate"
    /\ lastOp.res = "processed"
    /\ lastOp.pushed = 0
    /\ \E i \in 1..Len(automacoes) :
          LET a == automacoes[i]
          IN  /\ a.enabled /\ a.type = "schedule" /\ a.espId = lastOp.espId
              /\ a.lastTriggered > 0
              /\ lastSeen[a.espId] = a.lastTriggered + 60000
              /\ hhmmMatch(a, lastSeen[a.espId])

\* C4, as stated: with cycles one after another a schedule rule fires at
\* most once per matching minute: no two of its events are for readings
\* within 60000 ms of each other.
C4_OncePerMinute ==
    \A i, j \in 1..Len(eventos) :
       (/\ i < j
        /\ eventos[i].text = "executado" /\ eventos[j].text = "executado"
        /\ eventos[i].rule = eventos[j].rule) =>
          eventos[i].ts - eventos[j].ts > 60000

(***************************************************************************)
(* The event log, checked under SpecLog.                                    *)
(***************************************************************************)
\* C5: the event log never holds more than 200 entries, and after n
\* emissions it holds the min(n, 200) most recently emitted events, newest
\* first: once n exceeds 200 exactly the oldest n - 200 are gone.
C5_LogKeepsNewest200 ==
    /\ Len(eventos) <= 200
    /\ Len(eventos) = IF emitted <= 200 THEN emitted ELSE 200
    /\ \A i \in 1..Len(eventos) : eventos[i] = nthEvent(emitted + 1 - i)

\* More than 200 events were emitted, the last batch holding several: the
\* log is full, from the newest event down to the 200th newest.
C5_Witness ==
    /\ emitted > 200
    /\ lastOp.op = "emitBatch"
    /\ lastOp.pushed > 1
    /\ Len(eventos) = 200
    /\ eventos[1].ts = emitted
    /\ eventos[200].ts = emitted - 199

(***************************************************************************)
(* The user's handlers and the initial load, checked under Spec.            *)
(***************************************************************************)
idsOf(s) == {s[i].id : i \in 1..Len(s)}

\* The messages of the fields of f that salvar must reject.
rejections(f) ==
    (IF f.name \in {"", " "} THEN {"informe um nome"} ELSE {})
    \cup (IF f.espId \in {"", " "} THEN {"selecione um dispositivo"} ELSE {})
    \cup (IF f.type = "alert" /\ f.metricKey = <<>> THEN {"informe a metrica"} ELSE {})
    \cup (IF f.type = "alert" /\ f.operador = "" THEN {"selecione o operador"} ELSE {})
    \cup (IF f.type = "alert" /\ f.threshold \in {Undef, NaN}
          THEN {"informe o valor de limiar"} ELSE {})

\* C6: salvar on a form that fails validation (blank name, blank device,
\* or for an alert a blank metric key, no operator, a threshold that is not
\* a number) shows the message of a failing field, sends no request to the
\* backend and leaves the rule set as it was.
C6_InvalidFormRejected ==
    (lastOp.op = "salvar" /\ rejections(form) # {}) =>
       /\ erro \in rejections(form)
       /\ saves = lastOp.pending
       /\ automacoes = lastOp.before

\* salvar ran on an alert form whose only fault is the missing metric key.
C6_Witness ==
    /\ lastOp.op = "salvar"
    /\ form.type = "alert"
    /\ rejections(form) = {"informe a metrica"}
    /\ erro = "informe a metrica"
    /\ saves = <<>>

\* C7: when a confirmed removal completes, whatever DELETE answered (ok,
\* not ok, network error), no rule of the rule set has the removed id and
\* every other rule is still there, in the same order.
C7_RemoveIsLocal ==
    lastOp.op = "removerDone" =>
       LET others(item) == item.id # lastOp.id
       IN  /\ lastOp.id \notin idsOf(automacoes)
           /\ automacoes = SelectSeq(lastOp.before, others)

\* A removal whose DELETE threw completed, and another rule remains.
C7_Witness ==
    /\ lastOp.op = "removerDone"
    /\ lastOp.outcome = "throw"
    /\ lastOp.id \in idsOf(lastOp.before)
    /\ Len(lastOp.before) > 1
    /\ automacoes # <<>>

\* C8: when the save of a valid form in create mode completes, the rule set
\* is the previous one with exactly one rule added at the head, the form's
\* rule; if POST succeeded the rule has the id the backend returned and the
\* completion sets no warning; if POST failed the rule has a fresh local id
\* and the message is the 'saved locally' warning.
C8_CreateAddsAtHead ==
    (lastOp.op = "salvarDone" /\ lastOp.editId = NoId) =>
       /\ automacoes # <<>>
       /\ Tail(automacoes) = lastOp.before
       /\ [automacoes[1] EXCEPT !.id = lastOp.form.id] = lastOp.form
       /\ lastOp.outcome = "okId" =>
             /\ automacoes[1].id = lastOp.newId
             /\ lastOp.newId[1] = "p"
       /\ lastOp.outcome # "fail" => erro = lastOp.erro
       /\ lastOp.outcome = "fail" =>
             /\ automacoes[1].id[1] = "u"
             /\ automacoes[1].id # lastOp.form.id
             /\ automacoes[1].id \notin idsOf(lastOp.before)
             /\ erro = "Regra salva localmente, mas falhou ao sincronizar com backend"

\* A creation completed with the backend's id, in front of an older rule.
C8_Witness ==
    /\ lastOp.op = "salvarDone"
    /\ lastOp.editId = NoId
    /\ lastOp.outcome = "okId"
    /\ Len(automacoes) > 1
    /\ automacoes[1].id[1] = "p"
    /\ erro = ""

\* C9: when GET /api/rules succeeds, the rule set holds one rule per
\* distinct id among the rules loaded from local storage and the rules the
\* backend returned; a rule whose id the backend returned is the backend's
\* copy, a rule only local is kept.  When the load fails the rule set is
\* left as it was.
C9_LoadMerges ==
    lastOp.op = "loadRules" =>
       IF lastOp.ok
       THEN LET backend == convertAll(lastOp.backendRules,
                                      nextId - uuidsUsed(lastOp.backendRules))
            IN  /\ \A i, j \in 1..Len(automacoes) :
                      automacoes[i].id = automacoes[j].id => i = j
                /\ idsOf(automacoes) = idsOf(loadLocal) \cup idsOf(backend)
                /\ \A i \in 1..Len(automacoes) :
                      IF automacoes[i].id \in idsOf(backend)
                      THEN \E j \in 1..Len(backend) : automacoes[i] = backend[j]
                      ELSE \E j \in 1..Len(loadLocal) : automacoes[i] = loadLocal[j]
       ELSE automacoes = lastOp.before

\* The load succeeded and the backend's copy replaced the local rule of the
\* same id.
C9_Witness ==
    /\ lastOp.op = "loadRules"
    /\ lastOp.ok
    /\ loadLocal # <<>>
    /\ loadLocal[1].id \in idsOf(automacoes)
    /\ \E i \in 1..Len(automacoes) :
          /\ automacoes[i].id = loadLocal[1].id
          /\ automacoes[i].name = "remota"
          /\ automacoes[i] # loadLocal[1]

\* C10, as stated: when the save of an edit completes, with POST succeeding
\* or failing, the rule set still holds a rule with the id the edited rule
\* had before the edit.
C10_EditKeepsId ==
    (/\ lastOp.op = "salvarDone"
     /\ lastOp.editId # NoId
     /\ lastOp.editId \in idsOf(lastOp.before)) =>
       lastOp.editId \in idsOf(automacoes)

(***************************************************************************)
(* Rules and runs that interleave.                                          *)
(***************************************************************************)
\* How many events of the log s the rule id pushed.
eventsOf(s, id) == Cardinality({n \in 1..Len(s) : s[n].rule = id})

\* C11, as stated: while a rule is disabled no step of the evaluator adds a
\* Trigger Event for it or changes its lastTriggered, also when the cycle
\* was already awaiting a fetch when the rule was disabled.
C11_DisabledRuleNotEvaluated ==
    [][lastOp'.op = "evaluate" =>
          \A i \in 1..Len(automacoes) : \A j \in 1..Len(automacoes') :
             (/\ automacoes[i].id = automacoes'[j].id
              /\ ~automacoes[i].enabled
              /\ ~automacoes'[j].enabled) =>
                /\ automacoes'[j].lastTriggered = automacoes[i].lastTriggered
                /\ eventsOf(eventos', automacoes[i].id)
                      = eventsOf(eventos, automacoes[i].id)]_vars

\* C12: a fetch that throws, a response that is not ok or an empty payload
\* for one device of a cycle does not abort the cycle: the run goes on to
\* its next device with what it has collected, or, after the last device,
\* applies the events and lastTriggered updates collected from the other
\* devices; the interval timer is as active as before.
C12_FailureDoesNotAbort ==
    [][\A k \in 1..Len(runs) :
          (\E outcome \in Failures : evaluate(k, outcome)) =>
             /\ lastSeen' = lastSeen
             /\ timers' = timers
             /\ IF isLastDevice(k)
                THEN /\ Len(runs') = IF runs[k].updates = {} THEN Len(runs) - 1
                                     ELSE Len(runs)
                     /\ \A u \in runs[k].updates : \A i \in 1..Len(automacoes) :
                           automacoes[i].id = u[1] =>
                              automacoes'[i].lastTriggered = u[2]
                     /\ Len(eventos') = Len(eventos) + Len(runs[k].novos)
                     /\ \A n \in 1..Len(runs[k].novos) :
                           eventos'[Len(runs[k].novos) + 1 - n] = runs[k].novos[n]
                ELSE /\ Len(runs') = Len(runs)
                     /\ runs'[k] = [runs[k] EXCEPT !.i = @ + 1]
                     /\ UNCHANGED <<automacoes, eventos>>]_vars

\* The fetch of the last device of a cycle failed, and the event pushed for
\* another device of the cycle is in the log; the timer is set.
C12_Witness ==
    /\ lastOp.op = "evaluate"
    /\ lastOp.res = "skipped"
    /\ lastOp.finished
    /\ lastSeen[lastOp.espId] = 0
    /\ timers = 1
    /\ eventos # <<>>
    /\ eventos[1].espId # lastOp.espId
    /\ \E i \in 1..Len(automacoes) :
          /\ automacoes[i].espId = eventos[1].espId
          /\ automacoes[i].lastTriggered = eventos[1].ts

(***************************************************************************)
(* Persistence.                                                             *)
(***************************************************************************)
\* C13: the item stored under the automations key is the current rule set
\* when that is not empty and is absent, not an empty list, when it is
\* empty; reading the item back gives the current rule set.
C13_StorageMirrorsRules ==
    /\ storedRules.present <=> automacoes # <<>>
    /\ storedRules.present => storedRules.value = automacoes
    /\ readLocal(storedRules, <<>>) = automacoes

\* The removal of the last rule completed and took the stored item away.
C13_Witness ==
    /\ lastOp.op = "removerDone"
    /\ lastOp.before # <<>>
    /\ automacoes = <<>>
    /\ storedRules = [present |-> FALSE, value |-> <<>>]

(***************************************************************************)
(* lastTriggered and the rule store across asynchronous operations.         *)
(***************************************************************************)
\* C14, as stated: only the evaluator's batch writes lastTriggered: every
\* other step (create, edit and save, toggle, removal of another rule, the
\* merge of the initial load) leaves the lastTriggered of every rule that
\* exists before and after it unchanged.
C14_OnlyEvaluatorWritesLastTriggered ==
    [][lastOp'.op # "evaluate" =>
          \A i \in 1..Len(automacoes) : \A j \in 1..Len(automacoes') :
             automacoes[i].id = automacoes'[j].id =>
                automacoes'[j].lastTriggered = automacoes[i].lastTriggered]_vars

\* C14, the edit alone: the completion of the save of an edit leaves the
\* lastTriggered of the edited rule as it was.
C14_EditKeepsLastTriggered ==
    [][lastOp'.op = "salvarDone" =>
          \A i \in 1..Len(automacoes) : \A j \in 1..Len(automacoes') :
             automacoes[i].id = automacoes'[j].id =>
                automacoes'[j].lastTriggered = automacoes[i].lastTriggered]_vars

\* C15, as stated: what the user or the evaluator changed in the rule set
\* while GET /api/rules was in flight is still there after the merge: a
\* rule the backend did not return is in the rule set as it was just before
\* the merge, and a rule removed before the merge does not come back.
C15_LoadKeepsInterleavedChanges ==
    (lastOp.op = "loadRules" /\ lastOp.ok) =>
       LET backend == convertAll(lastOp.backendRules,
                                 nextId - uuidsUsed(lastOp.backendRules))
       IN  /\ \A i \in 1..Len(lastOp.before) :
                 lastOp.before[i].id \notin idsOf(backend) =>
                    \E j \in 1..Len(automacoes) : automacoes[j] = lastOp.before[i]
           /\ idsOf(automacoes) \subseteq idsOf(lastOp.before) \cup idsOf(backend)

\* C16, as stated: whatever the interleaving of overlapping runs, a
\* schedule rule never adds two Trigger Events whose timestamps are within
\* 60000 ms of each other.  The initial load is left in flight, so that only
\* the evaluator has touched the rules.
C16_NoRefireAcrossRuns ==
    loadPc = "fetching" =>
       \A i, j \in 1..Len(eventos) :
          (/\ i # j
           /\ eventos[i].text = "executado" /\ eventos[j].text = "executado"
           /\ eventos[i].rule = eventos[j].rule
           /\ eventos[i].ts >= eventos[j].ts) =>
             eventos[i].ts - eventos[j].ts > 60000

\* C17, as stated: a batch of the evaluator never lowers a rule's
\* lastTriggered, also when the batches of overlapping runs are applied out
\* of order.
C17_LastTriggeredMonotonic ==
    [][lastOp'.op = "evaluate" =>
          \A i \in 1..Len(automacoes) : \A j \in 1..Len(automacoes') :
             automacoes[i].id = automacoes'[j].id =>
                automacoes'[j].lastTriggered >= automacoes[i].lastTriggered]_vars

\* C18, as stated: the event log never holds two Trigger Events that the
\* same rule produced from the same reading (same device, same timestamp),
\* also after the page is loaded again with the rules and events read back
\* from local storage.
C18_NoDuplicateEvents ==
    \A i, j \in 1..Len(eventos) :
       (/\ eventos[i].rule = eventos[j].rule
        /\ eventos[i].espId = eventos[j].espId
        /\ eventos[i].ts = eventos[j].ts) => i = j

\* C19: at most one evaluation interval timer is active at any time, and
\* one is active only while some enabled rule has a non-empty espId: every
\* change of the rule set and every teardown of the component clears the
\* previous timer before a new one is set.
C19_AtMostOneTimer ==
    /\ timers \in {0, 1}
    /\ timers = 1 => \E i \in 1..Len(automacoes) :
                        automacoes[i].enabled /\ automacoes[i].espId # ""

\* The component was torn down and mounted again, then a rule was switched
\* off while another stays enabled: the timer was replaced twice and one is
\* active.
C19_Witness ==
    /\ reloads > 0
    /\ lastOp.op = "toggle"
    /\ \E i \in 1..Len(automacoes) : ~automacoes[i].enabled
    /\ timers = 1

\* The events a cycle has generated once run k has handled the outcome of
\* its current device, in the order of generation (novosEventos, lines
\* 222-274).
generated(k, outcome) ==
    LET run == runs[k]
        espId == run.targets[run.i]
        ok == outcome.kind = "ok"
        ts == IF ok THEN pickTimestamp(outcome.payload, 0) ELSE 0
        isAtivo(automation) == automation.enabled /\ automation.espId = espId
    IN  IF ok /\ isNewReading(ts, lastSeen[espId])
        THEN evalRules(SelectSeq(run.autos, isAtivo), ts, espId,
                       extractPayloadMaps(outcome.payload).flat,
                       [updates |-> run.updates, novos |-> run.novos]).novos
        ELSE run.novos

\* C20: entries of the event log are never modified or reordered.  When an
\* evaluation cycle ends, the new log is the events the cycle generated, in
\* reverse order of generation, followed by the previous log, cut to 200
\* entries; a cycle that has not ended, and creating, updating, deleting or
\* toggling a rule, leave the log as it was.
C20_LogOnlyPrepended ==
    [][/\ \A k \in 1..Len(runs) : \A outcome \in FewFetchOutcomes :
             evaluate(k, outcome) =>
                eventos' = IF runs[k].i = Len(runs[k].targets)
                           THEN Slice(Reverse(generated(k, outcome)) \o eventos, 200)
                           ELSE eventos
       /\ lastOp'.op # "evaluate" => eventos' = eventos]_vars

\* A cycle ended having generated two events from one reading; they are at
\* the head of the log, the one generated last first.
C20_Witness ==
    /\ lastOp.op = "evaluate"
    /\ lastOp.finished
    /\ lastOp.pushed = 2
    /\ Len(eventos) >= 2
    /\ eventos[1].rule # eventos[2].rule
    /\ eventos[1].ts = eventos[2].ts
    /\ \E i, j \in 1..Len(automacoes) :
          /\ i < j
          /\ automacoes[i].id = eventos[2].rule
          /\ automacoes[j].id = eventos[1].rule

\* C21: the last-seen timestamp of a device changes only when a reading
\* fetched for that device with a strictly greater timestamp is processed,
\* and it then becomes that reading's timestamp, whether or not a rule
\* fires; a fetch that fails, a response that is not ok, an empty payload
\* and a stale reading leave every last-seen timestamp as it was.  So the
\* last-seen timestamp of a device only ever grows.
C21_LastSeenOnlyAdvances ==
    [][/\ \A d \in Devices :
             lastSeen'[d] # lastSeen[d] =>
                /\ lastOp'.op = "evaluate"
                /\ lastOp'.espId = d
                /\ lastOp'.res = "processed"
                /\ lastSeen'[d] > lastSeen[d]
       /\ \A k \in 1..Len(runs) :
             /\ \A t \in Timestamps :
                   \/ lastSeen' = [lastSeen EXCEPT ![deviceOf(k)] = t]
                   \/ ~ \E outcome \in FetchOutcomes(deviceOf(k)) :
                           /\ isReading(outcome)
                           /\ tsOf(outcome) = t
                           /\ t > lastSeen[deviceOf(k)]
                           /\ evaluate(k, outcome)
             /\ \/ lastSeen' = lastSeen
                \/ ~ \E outcome \in FetchOutcomes(deviceOf(k)) :
                        /\ ~(isReading(outcome) /\ tsOf(outcome) > lastSeen[deviceOf(k)])
                        /\ evaluate(k, outcome)]_vars

\* A second reading of a device, newer than the first, was processed and
\* fired none of the enabled rules of the device: no event was pushed and
\* the last-seen timestamp is the one of the second reading.
C21_Witness ==
    /\ lastOp.op = "evaluate"
    /\ lastOp.res = "processed"
    /\ lastOp.pushed = 0
    /\ lastSeen[lastOp.espId] > tA
    /\ \E i \in 1..Len(eventos) :
          eventos[i].espId = lastOp.espId /\ eventos[i].ts = tA
    /\ \E i \in 1..Len(automacoes) :
          automacoes[i].enabled /\ automacoes[i].espId = lastOp.espId

\* C22: saving a valid form in edit mode leaves the list as long as it was
\* and, position by position, puts the form's rule (with the identifier the
\* backend returned, if it returned one) where the stored rule has the
\* edited identifier and keeps every other rule as it was, whether the
\* backend accepted the save or not.
C22_EditReplacesInPlace ==
    (lastOp.op = "salvarDone" /\ lastOp.editId # NoId) =>
       /\ Len(automacoes) = Len(lastOp.before)
       /\ \A i \in 1..Len(lastOp.before) :
             IF lastOp.before[i].id = lastOp.editId
             THEN /\ [automacoes[i] EXCEPT !.id = lastOp.form.id] = lastOp.form
                  /\ automacoes[i].id = IF lastOp.newId # NoId THEN lastOp.newId
                                        ELSE lastOp.form.id
             ELSE automacoes[i] = lastOp.before[i]

\* The second of two stored rules was edited and saved, and the backend
\* refused the save.
C22_Witness ==
    /\ lastOp.op = "salvarDone"
    /\ lastOp.outcome = "fail"
    /\ Len(lastOp.before) >= 2
    /\ lastOp.before[2].id = lastOp.editId
    /\ automacoes[2] = lastOp.form
    /\ automacoes[1] = lastOp.before[1]

\* C23, as stated: the identifiers of the rules of the rule set are pairwise
\* distinct in every reachable state.
C23_IdsDistinct ==
    \A i, j \in 1..Len(automacoes) : automacoes[i].id = automacoes[j].id => i = j

\* Whether line 242 skips the alert rule a on a reading flattened to flat:
\* the metric key does not resolve, the value is not a finite number, the
\* threshold is undefined or the operator is unset.
skipsAlert(a, flat) ==
    LET raw == resolveMetricValue(flat, a.metricKey)
    IN  \/ raw = Undef
        \/ raw.k \notin {"num", "numstr"}
        \/ a.threshold = Undef
        \/ a.operador = ""

\* C24: on a processed reading an enabled alert rule of the device whose
\* metric key does not resolve, whose value is not a finite number, whose
\* threshold is undefined or whose operator is unset is skipped: the step
\* pushes no event for it, collects no lastTriggered update for it and sets
\* no error; every other enabled rule of the device that fires on the
\* reading still pushes its event.
C24_UnusableAlertSkipped ==
    [][\A k \in 1..Len(runs) : \A outcome \in FetchOutcomes(deviceOf(k)) :
          LET ts == tsOf(outcome)
              flat == extractPayloadMaps(outcome.payload).flat
          IN (/\ isReading(outcome)
              /\ ts > lastSeen[deviceOf(k)]
              /\ evaluate(k, outcome)) =>
                \A n \in 1..Len(runs[k].autos) :
                   LET a == runs[k].autos[n]
                   IN  (/\ a.enabled /\ a.type = "alert" /\ a.espId = deviceOf(k)
                        /\ skipsAlert(a, flat)) =>
                          /\ firings(pushedBy(k), a.id, ts) = 0
                          /\ IF isLastDevice(k)
                             THEN \A i \in 1..Len(automacoes) :
                                     automacoes[i].id = a.id =>
                                        automacoes'[i].lastTriggered
                                           = automacoes[i].lastTriggered
                             ELSE \A u \in runs'[k].updates : u[1] # a.id
                          /\ erro' = erro
                          /\ \A m \in 1..Len(runs[k].autos) :
                                LET b == runs[k].autos[m]
                                IN  (/\ b.enabled /\ b.espId = deviceOf(k)
                                     /\ fires(b, ts, flat)) =>
                                       firings(pushedBy(k), b.id, ts) = 1]_vars

\* A reading was processed for a device watched by an alert rule without
\* threshold and by one that fires: the only event pushed is of the second,
\* the first was never triggered.
C24_Witness ==
    /\ lastOp.op = "evaluate"
    /\ lastOp.res = "processed"
    /\ lastOp.finished
    /\ lastOp.pushed = 1
    /\ eventos # <<>>
    /\ eventos[1].espId = lastOp.espId
    /\ eventos[1].ts = lastSeen[lastOp.espId]
    /\ \E i \in 1..Len(automacoes) :
          /\ automacoes[i].enabled
          /\ automacoes[i].type = "alert"
          /\ automacoes[i].espId = lastOp.espId
          /\ automacoes[i].operador = ">"
          /\ automacoes[i].threshold = Undef
          /\ automacoes[i].lastTriggered = 0
          /\ automacoes[i].id # eventos[1].rule

\* C25: resolveMetricValue(flat, key) is undefined for an empty key; the
\* value at key when key is a key of flat; otherwise the value of the first
\* key of flat, in iteration order, whose last segment normalizes to the
\* same string as the last segment of key; undefined when there is none.
C25_ResolveMetricValue ==
    returned.fn = "resolveMetricValue" =>
       LET flat == call.flat
           key == call.key
           exact == {i \in 1..Len(flat) : flat[i][1] = key}
           alike == {i \in 1..Len(flat) :
                        normalizeKey(flat[i][1][Len(flat[i][1])])
                           = normalizeKey(key[Len(key)])}
       IN  IF key = <<>> THEN returned.value = Undef
           ELSE IF exact # {} THEN \A i \in exact : returned.value = flat[i][2]
           ELSE IF alike # {}
                THEN \E i \in alike : /\ \A j \in alike : i <= j
                                      /\ returned.value = flat[i][2]
           ELSE returned.value = Undef

\* The key is not a key of the reading and the last segments of both keys
\* of the reading normalize like its own: the value of the first came back.
C25_Witness ==
    /\ returned.fn = "resolveMetricValue"
    /\ Len(call.flat) = 2
    /\ call.key = <<"temperatura">>
    /\ call.flat[1][1] = <<"data", "Temperatura">>
    /\ call.flat[2][1] = <<"data", "temperatura">>
    /\ returned.value = call.flat[1][2]

\* C26: for every value and threshold of -MaxAbs..MaxAbs, compareValues
\* returns the numeric comparison named by the operator for ">", "<", ">=",
\* "<=", "==" (equality) and "!=" (its negation), and false for any other
\* operator.
C26_CompareValues ==
    returned.fn = "compareValues" =>
       LET v == call.value
           o == call.operator
           t == call.threshold
       IN  returned.value =
              (\/ o = ">" /\ t < v
               \/ o = "<" /\ v < t
               \/ o = ">=" /\ ~(v < t)
               \/ o = "<=" /\ ~(t < v)
               \/ o = "==" /\ v - t = 0
               \/ o = "!=" /\ v - t # 0)

\* compareValues was called with a negative value equal to the threshold
\* and the operator ">=", and returned true.
C26_Witness ==
    /\ returned.fn = "compareValues"
    /\ call.operator = ">="
    /\ call.value = call.threshold
    /\ call.value < 0
    /\ returned.value = TRUE

\* The rule id is in the rule set as an enabled alert rule on device d1
\* that the latest reading satisfies.
satisfiedAlert(id) ==
    \E i \in 1..Len(automacoes) :
       /\ automacoes[i].id = id
       /\ automacoes[i].enabled
       /\ automacoes[i].type = "alert"
       /\ automacoes[i].espId = "d1"
       /\ alertFires(automacoes[i], extractPayloadMaps(LatestReading.payload).flat)

\* C27, as stated: while the timer keeps firing and the fetches for the
\* device eventually succeed, once an enabled alert rule is in the rule set
\* and the latest reading of its device is newer than the last one seen and
\* satisfies the rule's condition, a Trigger Event of that rule is
\* eventually in the event log, unless the rule is changed or switched off.
C27_EventuallyTriggered ==
    \A id \in {<<"r", 1>>, <<"r", 2>>} :
       (satisfiedAlert(id) /\ lastSeen["d1"] < tsOf(LatestReading))
          ~> (eventsOf(eventos, id) > 0 \/ ~satisfiedAlert(id))

\* C28: a fetched reading without a timestamp that can be parsed, for which
\* pickTimestamp returns the fallback 0, is not processed: the step pushes
\* no event, collects no lastTriggered update (the batch it may apply is
\* the one of the earlier devices) and leaves every last-seen timestamp as
\* it was.
C28_UntimedReadingIgnored ==
    [][\A k \in 1..Len(runs) :
          (/\ pickTimestamp(NoTimestamp.payload, 0) = 0
           /\ evaluate(k, NoTimestamp)) =>
             /\ lastSeen' = lastSeen
             /\ IF isLastDevice(k)
                THEN /\ automacoes' = applyUpdates(runs[k].updates, automacoes)
                     /\ eventos' = Reverse(runs[k].novos) \o eventos
                ELSE /\ runs'[k].updates = runs[k].updates
                     /\ runs'[k].novos = runs[k].novos
                     /\ UNCHANGED <<automacoes, eventos>>]_vars

\* A reading without timestamp arrived for a device never seen, watched by
\* an enabled alert rule: nothing was triggered, the device is still unseen.
C28_Witness ==
    /\ lastOp.op = "evaluate"
    /\ lastOp.res = "untimed"
    /\ lastOp.finished
    /\ lastSeen[lastOp.espId] = 0
    /\ eventos = <<>>
    /\ \E i \in 1..Len(automacoes) :
          /\ automacoes[i].enabled
          /\ automacoes[i].type = "alert"
          /\ automacoes[i].espId = lastOp.espId
          /\ automacoes[i].lastTriggered = 0

\* C30: in the History page a load of an effect that was torn down (the
\* device list, the period or the device filter changed, or the page left
\* the screen) writes neither the events list nor the error message when
\* its request is answered: a request answered changes them only for a load
\* of the effect that is active.
C30_TornDownLoadWritesNothing ==
    [][\A i \in 1..Len(historyPage.loads) :
          \/ historyPage.loads[i].gen = historyPage.gen
          \/ (/\ historyPage'.events = historyPage.events
              /\ historyPage'.error = historyPage.error)
          \/ ~(\E answer \in HistoryAnswers : answerLoad(i, answer))]_vars

\* A load whose effect had been torn down ran to its end: it had collected
\* rows of its first device and its last request failed. The list on screen
\* is not its list and no message is shown.
C30_Witness ==
    /\ historyPage.last.op = "answer"
    /\ historyPage.last.gen # historyPage.last.active
    /\ historyPage.last.finished
    /\ historyPage.last.failed
    /\ historyPage.last.collected # <<>>
    /\ historyPage.events # sortByTs(historyPage.last.collected)
    /\ historyPage.error = ""

\* C29: the switch of a rule sets enabled, to the opposite of what the
\* switch showed, in the rule that has that id and changes no other field
\* of it; every rule with another id, the number and the order of the
\* rules and the event log stay as they were; no request is sent to the
\* backend (no save, removal or load is started) and no message is set.
C29_ToggleOnlyEnabled ==
    [][\A i \in 1..Len(automacoes) :
          toggle(i) =>
             /\ Len(automacoes') = Len(automacoes)
             /\ automacoes'[i].enabled = ~automacoes[i].enabled
             /\ \A j \in 1..Len(automacoes) :
                   IF automacoes[j].id = automacoes[i].id
                   THEN automacoes'[j] =
                           [automacoes[j] EXCEPT !.enabled = automacoes'[i].enabled]
                   ELSE automacoes'[j] = automacoes[j]
             /\ UNCHANGED <<eventos, storedEvents, erro, saves, removals, loadPc>>]_vars

\* The switch of one of two rules was used while the log had an event: that
\* rule is disabled, the other one is still enabled.
C29_Witness ==
    /\ lastOp.op = "toggle"
    /\ eventos # <<>>
    /\ \E i, j \in 1..Len(automacoes) :
          /\ automacoes[i].id = lastOp.id
          /\ ~automacoes[i].enabled
          /\ automacoes[j].id # lastOp.id
          /\ automacoes[j].enabled

====
